---------------------------- MODULE Spec2Model ----------------------------
(***************************************************************************)
(* Model of src/main.py: a polling loop that runs a store checker and a    *)
(* capacity checker concurrently each tick, deduplicates store items       *)
(* through a set + deque cache and pushes notifications through a          *)
(* best-effort notifier.                                                    *)
(*                                                                         *)
(* Python dictionaries are TLA+ records; a key that is absent from the     *)
(* dictionary is absent from DOMAIN.  A JSON value that is not a mapping   *)
(* is the record NotAMapping.  A JSON container is wrapped as              *)
(* [type |-> "list", items |-> <<...>>] so that a value of another type    *)
(* ([type |-> "null"]) can stand in its place.                             *)
(***************************************************************************)
EXTENDS Integers, Sequences, FiniteSets, TLC

(***************************************************************************)
(* Bounds of the model.                                                    *)
(***************************************************************************)
\* The cache capacity explored by the model (the source's 1000, scaled).
CacheBound == 1
\* Item identifiers 1..NumIds; more identifiers than the cache can hold.
NumIds == 2
\* Longest store listing in one response.
MaxItems == 2
\* Most region detail records in one capacity response.
MaxRegions == 2

\* src/main.py:41
MAX_CACHE_SIZE == CacheBound

Ids == 1..NumIds

(***************************************************************************)
(* State.                                                                  *)
(***************************************************************************)
VARIABLES
    configured,       \* which of bot and TG_CHAT_ID are set (lines 34-39), fixed at startup
    last_seen_ids,    \* line 42
    last_seen_queue,  \* line 43
    main_pc,          \* main_loop: "top", "gather", "sleep", "crashed"
    store_pc,         \* check_store: "idle", "get", "json", "send", "returned", "raised"
    store_status,     \* resp.status of the store request (0: no response)
    stores,           \* the list under data["data"] of the store response
    new_items,        \* the local new_items of check_store
    store_calls,      \* the notifier calls check_store has completed this tick
    cap_pc,           \* check_capacity: as store_pc
    cap_status,       \* resp.status of the capacity request (0: no response)
    regions,          \* the value under data["data"] of the capacity response
    cap_i,            \* position of the outer loop (group)
    cap_j,            \* position of the inner loop (detail record)
    cap_calls,        \* the notifier calls check_capacity has completed this tick
    log,              \* the error records logged during this tick
    cache0,           \* history: the cache when the tick began
    fresh,            \* history: the ids the store loop found new this tick
    evictions,        \* history: the inserts into a full cache this tick
    newCount,         \* history: how often each id was found new
    evictCount,       \* history: how often each id was removed from last_seen_ids
    missed,           \* history: ids of a store message that was not delivered
    prev_cap_names    \* history: the regions notified in the previous tick

cacheVars == <<last_seen_ids, last_seen_queue>>
storeVars == <<store_pc, store_status, stores, new_items, store_calls>>
capVars == <<cap_pc, cap_status, regions, cap_i, cap_j, cap_calls>>
histVars == <<cache0, fresh, evictions, newCount, evictCount, missed>>
vars == <<configured, cacheVars, main_pc, storeVars, capVars, log, histVars, prev_cap_names>>

(***************************************************************************)
(* dict.get(key, default)                                                  *)
(***************************************************************************)
Get(d, k, default) == IF k \in DOMAIN d THEN d[k] ELSE default

NotAMapping == [not_a_mapping |-> TRUE]
IsMapping(d) == "not_a_mapping" \notin DOMAIN d

List(s) == [type |-> "list", items |-> s]
\* JSON null where a list is expected (data["data"] is None).
NotAList == [type |-> "null"]
\* A JSON object where a list is expected.
MappingBody == [type |-> "dict"]

\* Sequences over S of length lo..hi.
SeqsOf(S, lo, hi) == UNION {[1..n -> S] : n \in lo..hi}

(***************************************************************************)
(* Store responses: the "data" list of item records.  An item record has   *)
(* an optional id (0 is a present but falsy id), and optional name,        *)
(* location and price.  The item with the largest id carries no details.   *)
(***************************************************************************)
ItemFull(i) == [id |-> i, name |-> ToString(i), location |-> "loc", price |-> "9"]
ItemBare(i) == [id |-> i]
ItemNoId == [name |-> "anon", location |-> "loc", price |-> "9"]

Item(i) == IF i = NumIds THEN ItemBare(i) ELSE ItemFull(i)

\* Records the loop does not take for an item: a falsy id, no id, no mapping.
OddItems == {ItemFull(0), ItemNoId, NotAMapping}

ItemRecords == {Item(i) : i \in Ids} \cup OddItems

\* Listings of up to MaxItems records, at most one of them odd.
StoreBodies ==
    {List(s) : s \in {t \in SeqsOf(ItemRecords, 0, MaxItems) :
                        Cardinality({k \in DOMAIN t : t[k] \in OddItems}) <= 1}}
        \cup {NotAList}

\* The store responses of the specifications that explore check_capacity.
FewStoreBodies == {List(<<Item(1)>>)}

(***************************************************************************)
(* Capacity responses: the "data" list of region groups, each with an      *)
(* optional nested "data" list of region detail records.  A detail record  *)
(* has an optional equity flag, an optional capacity status and an         *)
(* optional region mapping with an optional display name.                  *)
(***************************************************************************)
Region(e, c, n) == [equity |-> e, capacity |-> c, region |-> [display |-> n]]

RegionX == Region(TRUE, "available", "X")
RegionNoKey == [equity |-> TRUE, capacity |-> "limited"]
RegionInsufficient == Region(TRUE, "insufficient", "X")

\* The records that fill the responses of more than one record.
CoreRegions == {RegionX, RegionNoKey, RegionInsufficient}

RegionRecords ==
    CoreRegions \cup
    { Region(FALSE, "available", "X"),
      [capacity |-> "available", region |-> [display |-> "X"]],
      [equity |-> TRUE, region |-> [display |-> "X"]],
      [equity |-> TRUE, capacity |-> "available", region |-> [code |-> "x"]] }

Group(s) == [name |-> "g", data |-> List(s)]

\* Groups the loop skips or fails on: no "data" key, "data" null, no mapping.
OddGroups == {[name |-> "g"], [name |-> "g", data |-> NotAList], NotAMapping}

CapBodies ==
    {List(<<Group(s)>>) : s \in SeqsOf(RegionRecords, 0, 1) \cup SeqsOf(CoreRegions, 2, MaxRegions)}
        \cup {List(s) : s \in SeqsOf(OddGroups \cup {Group(t) : t \in SeqsOf(CoreRegions, 0, 1)}, 0, 2)}
        \cup {NotAList, MappingBody}

\* The capacity responses of the specifications that explore check_store.
FewCapBodies == {List(<<Group(<<RegionX>>)>>)}

(***************************************************************************)
(* The recency cache: last_seen_ids (set) and last_seen_queue, a           *)
(* deque(maxlen=MAX_CACHE_SIZE).                                           *)
(***************************************************************************)
Range(q) == {q[k] : k \in DOMAIN q}

\* deque.append on a bounded deque: a full deque drops its leftmost element.
DequeAppend(q, x) ==
    IF Len(q) >= MAX_CACHE_SIZE THEN Append(Tail(q), x) ELSE Append(q, x)

\* IsNew without the membership test.
IsNewIgnoringCache(store, ids) ==
    /\ "id" \in DOMAIN store
    /\ store.id # 0

\* `item_id and item_id not in last_seen_ids`
IsNew(store, ids) ==
    /\ "id" \in DOMAIN store
    /\ store.id # 0
    /\ store.id \notin ids

\* The item line of the message (line 92): the three labelled fields, with
\* the defaults of lines 89-91 (the strings are ASCII stand-ins).
DefaultName == "unknown-item"
DefaultLocation == ""
DefaultPrice == "N/A"
RenderItem(store) ==
    << "item", Get(store, "name", DefaultName),
       "at", Get(store, "location", DefaultLocation),
       "price", Get(store, "price", DefaultPrice) >>

\* Line 95: the header followed by the item lines joined in order.
StoreMsg(lines) == [kind |-> "store", head |-> "new-items", items |-> lines]

\* Insert without last_seen_ids.add.
InsertNoRecord(ids, q, x) == [ids |-> ids, queue |-> DequeAppend(q, x)]

\* Insert on an unbounded queue whose eviction pops the oldest id from the
\* queue and discards the new id from the set.
InsertDiscardsNew(ids, q, x) ==
    LET ids1 == ids \cup {x}
        q1 == Append(q, x)
    IN  IF Len(q1) > MAX_CACHE_SIZE
        THEN [ids |-> ids1 \ {x}, queue |-> Tail(q1)]
        ELSE [ids |-> ids1, queue |-> q1]

\* Lines 82-87: record a new id; the eviction branch runs only when the
\* queue is longer than MAX_CACHE_SIZE after the append.
Insert(ids, q, x) ==
    LET ids1 == ids \cup {x}
        q1 == DequeAppend(q, x)
    IN  IF Len(q1) > MAX_CACHE_SIZE
        THEN [ids |-> ids1 \ {Head(q1)}, queue |-> Tail(q1)]
        ELSE [ids |-> ids1, queue |-> q1]

\* The for loop of check_store (lines 78-92) from record k on.  st carries
\* the cache, new_items, whether an exception left the loop, and the
\* history of the loop: the ids found new (fresh) and one entry per insert
\* into a full cache (evictions).
RECURSIVE StoreLoop(_, _, _)
StoreLoop(items, k, st) ==
    IF k > Len(items) THEN st
    ELSE LET store == items[k] IN
         IF ~IsMapping(store) THEN [st EXCEPT !.exc = TRUE]
         ELSE IF IsNew(store, st.ids)
         THEN LET c == Insert(st.ids, st.queue, store.id)
                  full == Len(st.queue) >= MAX_CACHE_SIZE
                  ev == [oldest |-> IF st.queue = <<>> THEN 0 ELSE Head(st.queue),
                         from_set |-> (st.ids \cup {store.id}) \ c.ids,
                         from_queue |-> (Range(st.queue) \cup {store.id}) \ Range(c.queue)]
              IN  StoreLoop(items, k + 1,
                     [st EXCEPT !.ids = c.ids,
                                !.queue = c.queue,
                                !.new_items = Append(@, RenderItem(store)),
                                !.fresh = Append(@, store.id),
                                !.evictions = IF full THEN Append(@, ev) ELSE @])
         ELSE StoreLoop(items, k + 1, st)

(***************************************************************************)
(* The capacity condition and message (lines 124-130).                     *)
(***************************************************************************)
DefaultRegionName == "unknown-region"

\* Qualifies with "available" as the only sufficient status.
QualifiesAvailableOnly(region) ==
    /\ Get(region, "equity", FALSE)
    /\ Get(region, "capacity", "insufficient") = "available"

\* Qualifies with the regions of the previous tick left out.
QualifiesOnce(region) ==
    /\ Get(region, "equity", FALSE)
    /\ Get(region, "capacity", "insufficient") # "insufficient"
    /\ Get(Get(region, "region", [none |-> TRUE]), "display", "unknown-region")
          \notin prev_cap_names

\* `equity and capacity != "insufficient"`
Qualifies(region) ==
    /\ Get(region, "equity", FALSE)
    /\ Get(region, "capacity", "insufficient") # "insufficient"

\* RegionName without the default of the second get: the label is None.
RegionNameNoDefault(region) ==
    LET r == Get(region, "region", [none |-> TRUE])
    IN  Get(r, "display", "None")

\* region.get("region", {}).get("display", <placeholder>)
RegionName(region) ==
    LET r == Get(region, "region", [none |-> TRUE])
    IN  Get(r, "display", DefaultRegionName)

CapMsg(region) == [kind |-> "capacity", region |-> RegionName(region), status |-> "enough"]

(***************************************************************************)
(* The notifier, send_telegram_message (lines 46-51).  cfg is the guard    *)
(* of line 47.  With cfg false the call returns at once; with    *)
(* cfg true it awaits bot.send_message, which delivers the text or raises, *)
(* and an exception is logged and swallowed.                               *)
(***************************************************************************)
SendOutcomes == {"delivered", "transport_error"}

\* The guard of line 47 without the test of TG_CHAT_ID.
NotifierOnBotOnly(c) == c.bot

\* `bot and TG_CHAT_ID` (line 47).
NotifierOn(c) == c.bot /\ c.chat

\* NotifyResult without the try/except: the exception leaves the call.
NotifyResultNoCatch(outcome) == IF outcome = "delivered" THEN "Sent" ELSE "Raised"

\* What the caller gets back from the try/except of lines 48-51: the call
\* returns after a delivery ("Sent") and after a logged exception
\* ("Failed"); "Raised" would be an exception that leaves the call.
NotifyResult(outcome) == IF outcome = "delivered" THEN "Sent" ELSE "Failed"

Call(text, result, at) == [text |-> text, result |-> result, at |-> at]

(***************************************************************************)
(* The nested loops of check_capacity (lines 116-131) from detail record j *)
(* of group i on, up to the next suspension: the await of a send           *)
(* ("await"), the end of the loops ("end") or an exception ("raise").      *)
(* With the notifier not configured a send does not suspend, and the loop  *)
(* goes on; calls collects those calls.                                    *)
(***************************************************************************)
RECURSIVE CapLoop(_, _, _, _, _)
CapLoop(groups, i, j, cfg, calls) ==
    IF i > Len(groups) THEN [kind |-> "end", i |-> i, j |-> j, calls |-> calls]
    ELSE LET region_data == groups[i] IN
         IF ~IsMapping(region_data)
         THEN [kind |-> "raise", i |-> i, j |-> j, calls |-> calls]
         ELSE LET region_details == Get(region_data, "data", List(<<>>)) IN
              IF region_details.type # "list" \/ j > Len(region_details.items)
              THEN CapLoop(groups, i + 1, 1, cfg, calls)
              ELSE LET region == region_details.items[j] IN
                   IF ~IsMapping(region)
                   THEN [kind |-> "raise", i |-> i, j |-> j, calls |-> calls]
                   ELSE IF Qualifies(region)
                   THEN IF cfg
                        THEN [kind |-> "await", i |-> i, j |-> j, calls |-> calls]
                        ELSE CapLoop(groups, i, j + 1, cfg,
                                     Append(calls, Call(CapMsg(region), "Skipped", <<i, j>>)))
                   ELSE CapLoop(groups, i, j + 1, cfg, calls)

\* `except Exception` (lines 98-99, 135-136): every exception the checkers
\* meet is an Exception, so it is logged and the checker returns.
ExceptionKinds ==
    {"ClientError", "TimeoutError", "JSONDecodeError", "TypeError", "AttributeError",
     "TelegramError"}
\* Handler with `except aiohttp.ClientError` in place of `except Exception`.
HandlerNarrow(exc) == IF exc = "ClientError" THEN "returned" ELSE "raised"

Handler(exc) == IF exc \in ExceptionKinds THEN "returned" ELSE "raised"

Statuses == {200, 500}

\* OkStatus without the test of the status.
OkStatusAny(status) == status >= 200

\* `resp.status != 200` (lines 70, 107), negated.
OkStatus(status) == status = 200

Cache == [ids |-> last_seen_ids, queue |-> last_seen_queue]

Init ==
    /\ configured \in [bot : BOOLEAN, chat : BOOLEAN]
    /\ last_seen_ids = {}
    /\ last_seen_queue = <<>>
    /\ main_pc = "top"
    /\ store_pc = "idle"
    /\ store_status = 0
    /\ stores = List(<<>>)
    /\ new_items = <<>>
    /\ store_calls = <<>>
    /\ cap_pc = "idle"
    /\ cap_status = 0
    /\ regions = List(<<>>)
    /\ cap_i = 1
    /\ cap_j = 1
    /\ cap_calls = <<>>
    /\ log = {}
    /\ cache0 = [ids |-> {}, queue |-> <<>>]
    /\ fresh = <<>>
    /\ evictions = <<>>
    /\ newCount = [i \in Ids |-> 0]
    /\ evictCount = [i \in Ids |-> 0]
    /\ missed = {}
    /\ prev_cap_names = {}

(***************************************************************************)
(* main_loop (lines 139-147).                                              *)
(***************************************************************************)
\* asyncio.gather starts both checkers; each runs to its session.get.
MainGather ==
    /\ main_pc = "top"
    /\ main_pc' = "gather"
    /\ store_pc' = "get"
    /\ cap_pc' = "get"
    /\ cache0' = Cache
    /\ UNCHANGED <<configured, cacheVars, store_status, stores, new_items, store_calls,
                   cap_status, regions, cap_i, cap_j, cap_calls, log,
                   fresh, evictions, newCount, evictCount, missed, prev_cap_names>>

\* MainGathered with a gather that returns when the first checker is over.
MainGatheredFirstDone ==
    /\ main_pc = "gather"
    /\ store_pc \in {"returned", "raised"} \/ cap_pc \in {"returned", "raised"}
    /\ main_pc' = IF "raised" \in {store_pc, cap_pc} THEN "crashed" ELSE "sleep"
    /\ store_pc' = "idle"
    /\ store_status' = 0
    /\ stores' = List(<<>>)
    /\ new_items' = <<>>
    /\ store_calls' = <<>>
    /\ cap_pc' = "idle"
    /\ cap_status' = 0
    /\ regions' = List(<<>>)
    /\ cap_i' = 1
    /\ cap_j' = 1
    /\ cap_calls' = <<>>
    /\ log' = {}
    /\ fresh' = <<>>
    /\ evictions' = <<>>
    /\ prev_cap_names' = {cap_calls[k].text.region : k \in DOMAIN cap_calls}
    /\ UNCHANGED <<configured, cacheVars, cache0, newCount, evictCount, missed>>

\* gather returns once both checkers have returned; an exception of either
\* is re-raised at once in main_loop, which has no handler.  The checkers'
\* frames and the tick's records are gone.
MainGathered ==
    /\ main_pc = "gather"
    /\ \/ store_pc = "returned" /\ cap_pc = "returned"
       \/ "raised" \in {store_pc, cap_pc}
    /\ main_pc' = IF "raised" \in {store_pc, cap_pc} THEN "crashed" ELSE "sleep"
    /\ store_pc' = "idle"
    /\ store_status' = 0
    /\ stores' = List(<<>>)
    /\ new_items' = <<>>
    /\ store_calls' = <<>>
    /\ cap_pc' = "idle"
    /\ cap_status' = 0
    /\ regions' = List(<<>>)
    /\ cap_i' = 1
    /\ cap_j' = 1
    /\ cap_calls' = <<>>
    /\ log' = {}
    /\ fresh' = <<>>
    /\ evictions' = <<>>
    /\ prev_cap_names' = {cap_calls[k].text.region : k \in DOMAIN cap_calls}
    /\ UNCHANGED <<configured, cacheVars, cache0, newCount, evictCount, missed>>

\* asyncio.sleep(CHECK_INTERVAL) elapses.
\* MainSleep for a loop that makes one pass and ends.
MainSleepOnce ==
    /\ main_pc = "sleep"
    /\ main_pc' = "exited"
    /\ UNCHANGED <<configured, cacheVars, storeVars, capVars, log, histVars, prev_cap_names>>

\* asyncio.sleep(CHECK_INTERVAL) returns and `while True` starts the next tick.
MainSleep ==
    /\ main_pc = "sleep"
    /\ main_pc' = "top"
    /\ UNCHANGED <<configured, cacheVars, storeVars, capVars, log, histVars, prev_cap_names>>

(***************************************************************************)
(* check_store (lines 65-99).                                              *)
(***************************************************************************)
\* session.get raises (connection error, timeout): lines 98-99.
StoreGetFails ==
    /\ store_pc = "get"
    /\ \E exc \in {"ClientError", "TimeoutError"} : store_pc' = Handler(exc)
    /\ log' = log \cup {"store_exception"}
    /\ UNCHANGED <<configured, cacheVars, main_pc, store_status, stores, new_items,
                   store_calls, capVars, histVars, prev_cap_names>>

\* The response arrives: lines 70-73.
StoreGetStatus ==
    /\ store_pc = "get"
    /\ \E status \in Statuses :
          /\ store_status' = status
          /\ IF ~OkStatus(status)
             THEN /\ store_pc' = "returned"
                  /\ log' = log \cup {"store_http"}
             ELSE /\ store_pc' = "json"
                  /\ UNCHANGED log
    /\ UNCHANGED <<configured, cacheVars, main_pc, stores, new_items, store_calls,
                   capVars, histVars, prev_cap_names>>

\* resp.json() raises on a body that is not JSON.
StoreJsonFails ==
    /\ store_pc = "json"
    /\ store_pc' = Handler("JSONDecodeError")
    /\ log' = log \cup {"store_exception"}
    /\ UNCHANGED <<configured, cacheVars, main_pc, store_status, stores, new_items,
                   store_calls, capVars, histVars, prev_cap_names>>

\* History of the loop: one more for each id found new.
Bump(count, ids) ==
    [i \in DOMAIN count |-> count[i] + Cardinality({k \in DOMAIN ids : ids[k] = i})]

\* resp.json() returns and lines 75-96 run up to the await of the send (or
\* to the end, when there is nothing to send or the notifier returns at
\* once).
StoreProcess(Bodies) ==
    /\ store_pc = "json"
    /\ \E body \in Bodies :
          /\ stores' = body
          /\ IF body.type # "list"
             THEN \* `for store in stores` on a value that is not iterable
                  /\ store_pc' = Handler("TypeError")
                  /\ log' = log \cup {"store_exception"}
                  /\ UNCHANGED <<cacheVars, new_items, store_calls, histVars>>
             ELSE LET st0 == [ids |-> last_seen_ids, queue |-> last_seen_queue,
                              new_items |-> <<>>, exc |-> FALSE,
                              fresh |-> <<>>, evictions |-> <<>>]
                      st == StoreLoop(body.items, 1, st0)
                  IN  /\ last_seen_ids' = st.ids
                      /\ last_seen_queue' = st.queue
                      /\ fresh' = st.fresh
                      /\ evictions' = st.evictions
                      /\ newCount' = Bump(newCount, st.fresh)
                      /\ evictCount' =
                            [i \in Ids |-> evictCount[i] +
                                Cardinality({k \in DOMAIN st.evictions :
                                                i \in st.evictions[k].from_set})]
                      /\ UNCHANGED cache0
                      /\ IF st.exc
                         THEN \* store.get on a record that is no mapping
                              /\ store_pc' = Handler("AttributeError")
                              /\ log' = log \cup {"store_exception"}
                              /\ new_items' = <<>>
                              /\ UNCHANGED <<store_calls, missed>>
                         ELSE /\ new_items' = st.new_items
                              /\ UNCHANGED log
                              /\ IF st.new_items = <<>>
                                 THEN /\ store_pc' = "returned"
                                      /\ UNCHANGED <<store_calls, missed>>
                                 ELSE IF NotifierOn(configured)
                                 THEN /\ store_pc' = "send"
                                      /\ UNCHANGED <<store_calls, missed>>
                                 ELSE /\ store_pc' = "returned"
                                      /\ store_calls' =
                                            Append(store_calls,
                                                   Call(StoreMsg(st.new_items), "Skipped", <<0, 0>>))
                                      /\ missed' = missed \cup Range(st.fresh)
    /\ UNCHANGED <<configured, main_pc, store_status, capVars, prev_cap_names>>

\* bot.send_message returns or raises (lines 48-51); check_store returns,
\* through its handler if the exception left the notifier.
StoreSend ==
    /\ store_pc = "send"
    /\ \E outcome \in SendOutcomes :
          LET result == NotifyResult(outcome) IN
          /\ store_calls' = Append(store_calls, Call(StoreMsg(new_items), result, <<0, 0>>))
          /\ store_pc' = IF result = "Raised" THEN Handler("TelegramError") ELSE "returned"
          /\ log' = log \cup (IF result = "Failed" THEN {"telegram_failed"} ELSE {})
                        \cup (IF result = "Raised" THEN {"store_exception"} ELSE {})
          /\ missed' = IF result = "Sent" THEN missed ELSE missed \cup Range(fresh)
    /\ UNCHANGED <<configured, cacheVars, main_pc, store_status, stores, new_items,
                   capVars, cache0, fresh, evictions, newCount, evictCount, prev_cap_names>>

(***************************************************************************)
(* check_capacity (lines 102-136).                                         *)
(***************************************************************************)
CapGetFails ==
    /\ cap_pc = "get"
    /\ \E exc \in {"ClientError", "TimeoutError"} : cap_pc' = Handler(exc)
    /\ log' = log \cup {"cap_exception"}
    /\ UNCHANGED <<configured, cacheVars, main_pc, storeVars, cap_status, regions,
                   cap_i, cap_j, cap_calls, histVars, prev_cap_names>>

CapGetStatus ==
    /\ cap_pc = "get"
    /\ \E status \in Statuses :
          /\ cap_status' = status
          /\ IF ~OkStatus(status)
             THEN /\ cap_pc' = "returned"
                  /\ log' = log \cup {"cap_http"}
             ELSE /\ cap_pc' = "json"
                  /\ UNCHANGED log
    /\ UNCHANGED <<configured, cacheVars, main_pc, storeVars, regions,
                   cap_i, cap_j, cap_calls, histVars, prev_cap_names>>

CapJsonFails ==
    /\ cap_pc = "json"
    /\ cap_pc' = Handler("JSONDecodeError")
    /\ log' = log \cup {"cap_exception"}
    /\ UNCHANGED <<configured, cacheVars, main_pc, storeVars, cap_status, regions,
                   cap_i, cap_j, cap_calls, histVars, prev_cap_names>>

\* The loops go on from (i, j) to their next suspension.
CapContinue(groups, i, j, calls) ==
    LET r == CapLoop(groups, i, j, NotifierOn(configured), calls)
    IN  /\ cap_i' = r.i
        /\ cap_j' = r.j
        /\ cap_calls' = r.calls
        /\ cap_pc' = CASE r.kind = "await" -> "send"
                       [] r.kind = "end" -> "returned"
                       [] OTHER -> Handler("AttributeError")

CapLogs(groups, i, j, calls) ==
    IF CapLoop(groups, i, j, NotifierOn(configured), calls).kind = "raise"
    THEN {"cap_exception"} ELSE {}

\* LogNotList without the logger.error of line 133.
LogNothing(lg) == lg

\* Line 133: the error record of a "data" that is no list.
LogNotList(lg) == lg \cup {"cap_not_list"}

\* resp.json() returns and lines 113-133 run up to the first suspension.
CapProcess(Bodies) ==
    /\ cap_pc = "json"
    /\ \E body \in Bodies :
          /\ regions' = body
          /\ IF body.type = "list"
             THEN /\ CapContinue(body.items, 1, 1, <<>>)
                  /\ log' = log \cup CapLogs(body.items, 1, 1, <<>>)
             ELSE /\ cap_pc' = "returned"
                  /\ log' = LogNotList(log)
                  /\ UNCHANGED <<cap_i, cap_j, cap_calls>>
    /\ UNCHANGED <<configured, cacheVars, main_pc, storeVars, cap_status,
                   histVars, prev_cap_names>>

\* bot.send_message returns or raises for the region at (cap_i, cap_j); the
\* loops go on, unless the exception left the notifier.
CapSend ==
    /\ cap_pc = "send"
    /\ \E outcome \in SendOutcomes :
          LET region == regions.items[cap_i].data.items[cap_j]
              result == NotifyResult(outcome)
              calls == Append(cap_calls, Call(CapMsg(region), result, <<cap_i, cap_j>>))
          IN  IF result = "Raised"
              THEN /\ cap_pc' = Handler("TelegramError")
                   /\ cap_calls' = calls
                   /\ log' = log \cup {"cap_exception"}
                   /\ UNCHANGED <<cap_i, cap_j>>
              ELSE /\ CapContinue(regions.items, cap_i, cap_j + 1, calls)
                   /\ log' = log \cup CapLogs(regions.items, cap_i, cap_j + 1, calls)
                                 \cup (IF result = "Failed" THEN {"telegram_failed"} ELSE {})
    /\ UNCHANGED <<configured, cacheVars, main_pc, storeVars, cap_status, regions,
                   histVars, prev_cap_names>>

\* One step of the program, with the responses the endpoints may give.
Step(StoreResponses, CapResponses) ==
    \/ MainGather
    \/ MainGathered
    \/ MainSleep
    \/ StoreGetFails
    \/ StoreGetStatus
    \/ StoreJsonFails
    \/ StoreProcess(StoreResponses)
    \/ StoreSend
    \/ CapGetFails
    \/ CapGetStatus
    \/ CapJsonFails
    \/ CapProcess(CapResponses)
    \/ CapSend

Next == Step(FewStoreBodies, FewCapBodies)
Spec == Init /\ [][Next]_vars

\* check_store over all store responses.
NextStore == Step(StoreBodies, FewCapBodies)
SpecStore == Init /\ [][NextStore]_vars

\* check_capacity over all capacity responses.
NextCapacity == Step(FewStoreBodies, CapBodies)
SpecCapacity == Init /\ [][NextCapacity]_vars

TypeOK ==
    /\ configured \in [bot : BOOLEAN, chat : BOOLEAN]
    /\ last_seen_ids \subseteq Ids
    /\ main_pc \in {"top", "gather", "sleep", "crashed"}
    /\ store_pc \in {"idle", "get", "json", "send", "returned", "raised"}
    /\ cap_pc \in {"idle", "get", "json", "send", "returned", "raised"}

(***************************************************************************)
(* Properties.                                                             *)
(***************************************************************************)
\* The store response of this tick was parsed and its loop ran to the end.
StoreProcessed ==
    /\ store_pc \in {"send", "returned"}
    /\ store_status = 200
    /\ stores.type = "list"
    /\ "store_exception" \notin log

\* The item records of this tick's store response.
Listed == IF stores.type = "list" THEN stores.items ELSE <<>>

\* The record at position k has an identifier (present and not falsy).
HasId(k) == IsMapping(Listed[k]) /\ "id" \in DOMAIN Listed[k] /\ Listed[k].id # 0

ListedIds == {Listed[k].id : k \in {n \in DOMAIN Listed : HasId(n)}}

\* The texts check_store has handed to the notifier this tick, the one in
\* flight included.
StoreHanded ==
    [k \in DOMAIN store_calls |-> store_calls[k].text]
        \o (IF store_pc = "send" THEN <<StoreMsg(new_items)>> ELSE <<>>)

C2_SetEqualsQueue == last_seen_ids = Range(last_seen_queue)

\* C3: neither the membership set nor the eviction queue holds more than
\* MAX_CACHE_SIZE ids.
C3_CacheBounded ==
    /\ Cardinality(last_seen_ids) <= MAX_CACHE_SIZE
    /\ Len(last_seen_queue) <= MAX_CACHE_SIZE

\* C4: an insert into a full cache removes the oldest resident id, and only
\* that id, from the cache (from the set and from the queue).
C4_FifoEviction ==
    \A k \in DOMAIN evictions :
        /\ evictions[k].from_set = {evictions[k].oldest}
        /\ evictions[k].from_queue = {evictions[k].oldest}

\* The positions of the response whose record has an identifier that was not
\* resident when the tick began and that no earlier record carries.
NewPositions ==
    SelectSeq([k \in DOMAIN Listed |-> k],
              LAMBDA k : /\ HasId(k)
                         /\ Listed[k].id \notin cache0.ids
                         /\ \A n \in 1..(k - 1) : HasId(n) => Listed[n].id # Listed[k].id)

ExpectedItems == [m \in DOMAIN NewPositions |-> RenderItem(Listed[NewPositions[m]])]

\* C5: for a processed 200 response check_store hands the notifier at most
\* one message: one message with exactly the items whose identifier was not
\* resident, in source order, when there is such an item, and none otherwise.
C5_OneAggregatedMessage ==
    /\ Len(StoreHanded) <= 1
    /\ StoreProcessed =>
          StoreHanded = IF ExpectedItems = <<>> THEN <<>> ELSE <<StoreMsg(ExpectedItems)>>

\* The response lists a resident item, then a new one: one message with the
\* new item only.
C5_Witness ==
    /\ StoreProcessed
    /\ Len(Listed) = 2
    /\ HasId(1) /\ Listed[1].id \in cache0.ids
    /\ HasId(2) /\ Listed[2].id \notin cache0.ids
    /\ StoreHanded = <<StoreMsg(<<RenderItem(Listed[2])>>)>>

\* C6: after a status other than 200 the checker has returned without an
\* exception and without a notification, and check_store has left the cache
\* as it was when the tick began.
C6_Non200IsSoftFailure ==
    /\ store_status \notin {0, 200} =>
          /\ store_pc = "returned"
          /\ StoreHanded = <<>>
          /\ Cache = cache0
    /\ cap_status \notin {0, 200} =>
          /\ cap_pc = "returned"
          /\ cap_calls = <<>>
    /\ main_pc # "crashed"

\* Both endpoints have answered 500 in a tick that began with ids cached.
C6_Witness ==
    /\ store_status = 500
    /\ cap_status = 500
    /\ last_seen_ids # {}
    /\ {"store_http", "cap_http"} \subseteq log

\* C7: a tick in which check_store met an exception is a no-op: it returned,
\* it sent nothing and the cache is as it was when the tick began.
C7_ExceptionIsNoOp ==
    "store_exception" \in log =>
        /\ store_pc = "returned"
        /\ StoreHanded = <<>>
        /\ Cache = cache0

\* C8: an id whose notification was not delivered is reported again by a
\* tick whose response lists it.
C8_MissedIsReportedAgain ==
    StoreProcessed => \A i \in missed \cap ListedIds : i \in Range(fresh)

(***************************************************************************)
(* Capacity properties.                                                    *)
(***************************************************************************)
Groups == IF regions.type = "list" THEN regions.items ELSE <<>>

\* Number of region detail records of a group.
GroupSize(g) ==
    IF IsMapping(g) /\ "data" \in DOMAIN g /\ g.data.type = "list"
    THEN Len(g.data.items) ELSE 0

\* The positions <<group, record>> of the region detail records.
Positions == UNION {{<<i, j>> : j \in 1..GroupSize(Groups[i])} : i \in DOMAIN Groups}

RecordAt(p) == Groups[p[1]].data.items[p[2]]

\* The loops have evaluated the record at p.
Passed(p) ==
    \/ p[1] < cap_i
    \/ p[1] = cap_i /\ p[2] < cap_j
    \/ cap_pc = "send" /\ p = <<cap_i, cap_j>>

\* check_capacity has handed the notifier a message for the record at p.
Notified(p) ==
    \/ \E k \in DOMAIN cap_calls : cap_calls[k].at = p
    \/ cap_pc = "send" /\ p = <<cap_i, cap_j>>

\* Entitlement true and a capacity status other than "insufficient", a
\* missing flag counting as false and a missing status as "insufficient".
Sufficient(r) ==
    /\ "equity" \in DOMAIN r /\ r.equity = TRUE
    /\ "capacity" \in DOMAIN r /\ r.capacity # "insufficient"

\* check_capacity ran its loops to the end without an exception.
CapCompleted ==
    /\ cap_pc = "returned"
    /\ cap_status = 200
    /\ regions.type = "list"
    /\ cap_i > Len(Groups)
    /\ log \cap {"cap_exception", "cap_not_list"} = {}

\* C9: check_capacity notifies for a region detail record it has evaluated
\* if and only if the record's entitlement flag is true and its capacity
\* status is not "insufficient"; after a run to the end this covers every
\* record of the response.
C9_NotifiedIffSufficient ==
    /\ \A p \in Positions : Passed(p) => (Notified(p) <=> Sufficient(RecordAt(p)))
    /\ CapCompleted => \A p \in Positions : Passed(p)

\* A response with a record of status "limited" and one of status
\* "insufficient", both entitled: one notification, for the first.
C9_Witness ==
    /\ CapCompleted
    /\ \E p \in Positions : RecordAt(p) = RegionNoKey /\ Notified(p)
    /\ \E p \in Positions : RecordAt(p) = RegionInsufficient /\ ~Notified(p)
    /\ Len(cap_calls) = 1

\* The region names the tick's notifications carry.
CapNames == {cap_calls[k].text.region : k \in DOMAIN cap_calls}

\* C10: a region that was notified in the previous tick and satisfies the
\* condition in this tick's response is notified again in this tick, while
\* an item id that was cached when the tick began is not reported again.
C10_CapacityNotDeduplicated ==
    /\ CapCompleted =>
          \A p \in Positions :
              (Sufficient(RecordAt(p)) /\ RegionName(RecordAt(p)) \in prev_cap_names)
                  => \E k \in DOMAIN cap_calls :
                        cap_calls[k].at = p /\ cap_calls[k].text = CapMsg(RecordAt(p))
    /\ StoreProcessed => Range(fresh) \cap cache0.ids = {}

\* Region X was notified in the previous tick and is notified again, while
\* item 1, listed in both ticks, is not reported in the second.
C10_Witness ==
    /\ CapCompleted
    /\ "X" \in prev_cap_names
    /\ "X" \in CapNames
    /\ StoreProcessed
    /\ store_pc = "returned"
    /\ ListedIds \cap cache0.ids # {}
    /\ StoreHanded = <<>>

\* C11: when the "data" of the capacity response is not a list,
\* check_capacity has logged the error, has sent nothing and has returned
\* without an exception, and main_loop leaves the gather for its sleep.
C11_NotAListIsSkipped ==
    /\ [](regions.type # "list" =>
             /\ cap_pc = "returned"
             /\ cap_calls = <<>>
             /\ "cap_not_list" \in log
             /\ "cap_exception" \notin log
             /\ main_pc = "gather")
    /\ [][(regions.type # "list" /\ main_pc' # main_pc) => main_pc' = "sleep"]_vars

\* The response carried a mapping where the list belongs, and both checkers
\* are over.
C11_Witness ==
    /\ regions = MappingBody
    /\ cap_pc = "returned"
    /\ store_pc = "returned"
    /\ "cap_not_list" \in log

\* The notifier calls of this tick that are over.
AllCalls == Range(store_calls) \cup Range(cap_calls)

\* The loops of check_capacity have gone on past position p.
Beyond(p) == p[1] < cap_i \/ (p[1] = cap_i /\ p[2] < cap_j)

\* C12: a notifier call makes one delivery attempt at most and returns to
\* the checker whether the attempt delivered or failed: no call ends in an
\* exception, no message is attempted twice, a failure is logged, and the
\* checker goes on after a failed call (check_store returns normally, the
\* loops of check_capacity move past the record).
C12_NotifierNeverRaisesNorRetries ==
    /\ \A c \in AllCalls : c.result \in {"Sent", "Failed", "Skipped"}
    /\ Len(store_calls) <= 1
    /\ \A k \in DOMAIN cap_calls : \A m \in DOMAIN cap_calls :
          k # m => cap_calls[k].at # cap_calls[m].at
    /\ store_pc # "raised" /\ cap_pc # "raised"
    /\ ("telegram_failed" \in log) <=> (\E c \in AllCalls : c.result = "Failed")
    /\ \A k \in DOMAIN store_calls :
          store_calls[k].result = "Failed" =>
              store_pc = "returned" /\ "store_exception" \notin log
    /\ \A k \in DOMAIN cap_calls :
          cap_calls[k].result = "Failed" =>
              cap_pc \in {"send", "returned"} /\ Beyond(cap_calls[k].at)

\* A delivery for one region failed and check_capacity went on to notify
\* the next region; the store message failed too and check_store returned.
C12_Witness ==
    /\ Len(cap_calls) = 2
    /\ cap_calls[1].result = "Failed"
    /\ cap_calls[2].result = "Sent"
    /\ cap_pc = "returned"
    /\ Len(store_calls) = 1
    /\ store_calls[1].result = "Failed"
    /\ store_pc = "returned"

\* The transport credential or the destination is not configured.
Disabled == ~configured.bot \/ ~configured.chat

\* C13: with the notifier disabled every notifier call is a no-op: no
\* checker ever waits for a delivery, every call is over as "Skipped", no
\* delivery failure is logged and nothing is raised; and both checkers run
\* to their end: check_store returns after its loop, check_capacity
\* evaluates every record and makes its call for every sufficient one.
C13_DisabledNotifierIsNoOp ==
    Disabled =>
        /\ store_pc # "send" /\ cap_pc # "send"
        /\ \A c \in AllCalls : c.result = "Skipped"
        /\ "telegram_failed" \notin log
        /\ store_pc # "raised" /\ cap_pc # "raised" /\ main_pc # "crashed"
        /\ (store_status = 200 /\ stores.type = "list" /\ "store_exception" \notin log
              /\ store_pc # "json")
              => (store_pc = "returned" /\ Len(store_calls) = Len(StoreHanded))
        /\ (cap_pc = "returned" /\ cap_status = 200 /\ regions.type = "list"
              /\ "cap_exception" \notin log)
              => (cap_i > Len(Groups)
                  /\ \A p \in Positions : Sufficient(RecordAt(p)) => Notified(p))

\* A bot without a destination: both checkers are over, each with a call
\* that was skipped.
C13_Witness ==
    /\ configured.bot /\ ~configured.chat
    /\ CapCompleted
    /\ Len(cap_calls) >= 1
    /\ store_pc = "returned"
    /\ Len(store_calls) = 1
    /\ store_calls[1].result = "Skipped"

\* An invocation of a checker is under way.
StoreActive == store_pc \in {"get", "json", "send"}
CapActive == cap_pc \in {"get", "json", "send"}

\* C14: ticks are sequential.  No checker is active outside the gather of
\* its tick; an invocation begins only when main_loop is at the top of its
\* loop and no invocation of either checker is left from the tick before;
\* main_loop leaves the gather only when both checkers have returned, and
\* comes back to the top only through the sleep.
C14_TicksAreSequential ==
    /\ [](main_pc # "gather" => ~StoreActive /\ ~CapActive)
    /\ [][((store_pc' = "get" /\ store_pc # "get") \/ (cap_pc' = "get" /\ cap_pc # "get"))
             => (main_pc = "top" /\ store_pc = "idle" /\ cap_pc = "idle")]_vars
    /\ [][(main_pc = "gather" /\ main_pc' # "gather")
             => (store_pc = "returned" /\ cap_pc = "returned" /\ main_pc' = "sleep")]_vars
    /\ [][(main_pc' = "top" /\ main_pc # "top") => main_pc = "sleep"]_vars

\* In a later tick check_store is over while check_capacity still waits for
\* a delivery: main_loop is still in its gather.
C14_Witness ==
    /\ main_pc = "gather"
    /\ store_pc = "returned"
    /\ cap_pc = "send"
    /\ cache0.ids # {}

\* The steps of each checker, over every response of its endpoint.
StoreStep ==
    StoreGetFails \/ StoreGetStatus \/ StoreJsonFails \/ StoreProcess(StoreBodies) \/ StoreSend
CapStep ==
    CapGetFails \/ CapGetStatus \/ CapJsonFails \/ CapProcess(CapBodies) \/ CapSend

\* A checker has failed in this tick: status other than 200, exception,
\* payload of the wrong shape or notification not delivered.
StoreFailed ==
    \/ log \cap {"store_http", "store_exception"} # {}
    \/ \E k \in DOMAIN store_calls : store_calls[k].result = "Failed"
CapFailed ==
    \/ log \cap {"cap_http", "cap_exception", "cap_not_list"} # {}
    \/ \E k \in DOMAIN cap_calls : cap_calls[k].result = "Failed"

\* C15: the two checkers of a tick are isolated.  No exception leaves a
\* checker or reaches main_loop; a checker that is under way can always take
\* its next step, whatever the state of the other; a step of one checker
\* leaves the other's position, response and notifications as they are; and
\* a checker that runs to the end beside a failed one has handed the
\* notifier all the messages of its own response.
C15_CheckersAreIsolated ==
    /\ [](main_pc # "crashed" /\ store_pc # "raised" /\ cap_pc # "raised")
    /\ [](StoreActive => ENABLED StoreStep)
    /\ [](CapActive => ENABLED CapStep)
    /\ [][(store_pc' # store_pc /\ main_pc' = main_pc) => UNCHANGED capVars]_vars
    /\ [][(cap_pc' # cap_pc /\ main_pc' = main_pc) => UNCHANGED <<storeVars, cacheVars>>]_vars
    /\ []((StoreFailed /\ CapCompleted) =>
             \A p \in Positions : Sufficient(RecordAt(p)) => Notified(p))
    /\ []((CapFailed /\ StoreProcessed /\ store_pc = "returned") =>
             [k \in DOMAIN store_calls |-> store_calls[k].text]
                 = IF ExpectedItems = <<>> THEN <<>> ELSE <<StoreMsg(ExpectedItems)>>)

\* check_store met an exception and check_capacity, in the same tick, ran to
\* the end and had a notification delivered.
C15_Witness ==
    /\ "store_exception" \in log
    /\ store_pc = "returned"
    /\ CapCompleted
    /\ \E k \in DOMAIN cap_calls : cap_calls[k].result = "Sent"

(***************************************************************************)
(* Liveness.  The event loop runs every task that is ready, and every      *)
(* request and every notification call returns in the end (with a          *)
(* response, an error status or an exception): a step of main_loop or of   *)
(* a checker that stays possible is taken.                                 *)
(***************************************************************************)
MainStep == MainGather \/ MainGathered \/ MainSleep

SpecLive ==
    /\ Spec
    /\ WF_vars(MainStep)
    /\ WF_vars(StoreStep)
    /\ WF_vars(CapStep)

\* C16: the poll loop has no terminal state.  Every tick that has begun
\* completes (main_loop reaches its sleep), every completed tick is followed
\* by another (both checkers are started again), and this holds after a tick
\* in which a checker failed as well.
C16_EveryTickIsFollowedByAnother ==
    /\ (main_pc = "gather") ~> (main_pc = "sleep")
    /\ (main_pc = "sleep") ~> (main_pc = "gather" /\ store_pc = "get" /\ cap_pc = "get")
    /\ (main_pc = "gather" /\ (StoreFailed \/ CapFailed))
           ~> (main_pc = "gather" /\ store_pc = "get" /\ cap_pc = "get")
    /\ []<>(main_pc = "top")

\* A tick begins after a tick in which the delivery of a notification failed.
C16_Witness ==
    /\ main_pc = "gather"
    /\ store_pc = "get"
    /\ cap_pc = "get"
    /\ NotifierOn(configured)
    /\ missed # {}

\* C17: an id that was evicted from the cache (it is no longer in the
\* eviction queue when the tick begins) does not suppress the notification:
\* a processed response that lists it finds it new again.
C17_EvictedIsReportedAgain ==
    StoreProcessed =>
        \A i \in ListedIds : i \notin Range(cache0.queue) => i \in Range(fresh)

\* The positions of the region detail records in response order: group by
\* group, and record by record within a group.
RECURSIVE PositionsFrom(_)
PositionsFrom(i) ==
    IF i > Len(Groups) THEN <<>>
    ELSE [j \in 1..GroupSize(Groups[i]) |-> <<i, j>>] \o PositionsFrom(i + 1)

QualifyingPositions == SelectSeq(PositionsFrom(1), LAMBDA p : Sufficient(RecordAt(p)))

\* The label of a record: its display name, or the placeholder.
Label(r) ==
    IF "region" \in DOMAIN r /\ "display" \in DOMAIN r.region
    THEN r.region.display ELSE DefaultRegionName

\* All groups and all detail records of the response are mappings.
WellFormedRegions ==
    /\ regions.type = "list"
    /\ \A i \in DOMAIN Groups :
          /\ IsMapping(Groups[i])
          /\ \A j \in 1..GroupSize(Groups[i]) : IsMapping(Groups[i].data.items[j])

\* C18: for a 200 capacity response whose top level is a list,
\* check_capacity hands the notifier exactly one message per qualifying
\* region detail record, in response order, each naming its record's region
\* or the placeholder; a group without a nested list or with an empty one
\* adds no message and does not end the run: a response with groups, all
\* of them mappings with mappings for records, is run to the end.
C18_OneMessagePerQualifyingRegion ==
    /\ CapCompleted =>
          /\ Len(cap_calls) = Len(QualifyingPositions)
          /\ \A k \in DOMAIN cap_calls :
                /\ cap_calls[k].at = QualifyingPositions[k]
                /\ cap_calls[k].text =
                      [kind |-> "capacity",
                       region |-> Label(RecordAt(QualifyingPositions[k])),
                       status |-> "enough"]
    /\ (cap_pc = "returned" /\ cap_status = 200 /\ Groups # <<>> /\ WellFormedRegions)
          => CapCompleted

\* The first group has no nested list, the second a qualifying record
\* without display name: one message, with the placeholder.
C18_Witness ==
    /\ CapCompleted
    /\ Len(Groups) = 2
    /\ GroupSize(Groups[1]) = 0
    /\ Len(cap_calls) = 1
    /\ cap_calls[1].at = <<2, 1>>
    /\ cap_calls[1].text.region = DefaultRegionName

\* The record at position k carries an identifier, whatever its value.
IdPresent(k) == IsMapping(Listed[k]) /\ "id" \in DOMAIN Listed[k]

PresentIds == {Listed[k].id : k \in {n \in DOMAIN Listed : IdPresent(n)}}

\* C19: check_store consults the cache for every record with an identifier
\* present and for no other: after a processed response every present
\* identifier is cached, and was found new if it was not resident when the
\* tick began; and nothing but the present identifiers was cached or found
\* new.
C19_EveryPresentIdIsObserved ==
    StoreProcessed =>
        /\ \A i \in PresentIds :
              /\ i \in last_seen_ids
              /\ i \notin cache0.ids => i \in Range(fresh)
        /\ Range(fresh) \subseteq PresentIds
        /\ last_seen_ids \subseteq cache0.ids \cup PresentIds

=============================================================================
